---------------------------- MODULE Spec2Model ----------------------------
(***************************************************************************)
(* DiskScope: the recursive size walk (calculateFolderSize), the tree      *)
(* builder (scanFolder, sortBySize), the parallel level scan               *)
(* (getSubfolders) and the interactive loop of main with its cache and     *)
(* history.                                                                *)
(*                                                                         *)
(* Byte counts are natural numbers.  std::uintmax_t is 64 bits wide; every *)
(* total of the file systems drawn here is far below 2^64, so the wrap of  *)
(* that type is outside what this development states.                      *)
(***************************************************************************)
EXTENDS Integers, Sequences, FiniteSets, TLC

(***************************************************************************)
(* The file system: the environment of every operation.                    *)
(*                                                                         *)
(* A path is the sequence of its components; Root is the directory the     *)
(* program is started on.  A file system is a function from the paths that *)
(* exist to what is stored there.  The entries of a directory are named    *)
(* 1, 2, ... and a directory is iterated in that order, so every listing   *)
(* order is present up to the choice of names.                             *)
(***************************************************************************)
\* The largest number of entries below the root of a file system drawn here.
MaxEntries == 3

Names == 1..MaxEntries

Root == <<>>

\* Byte sizes a regular file may have (the sizes of the end-to-end scenario).
FileSizes == {100, 2048}

\* Where a symbolic link points.  That path may hold nothing (a dangling
\* link), a file, a directory, the directory the link itself is in (a link
\* cycle) or the link itself.
LinkTarget == <<2>>

NoEntry == [kind |-> "none", ok |-> FALSE, size |-> 0]

\* A directory; ok = its entries can be listed.
DirEntry(listable) == [kind |-> "dir", ok |-> listable, size |-> 0]

\* A regular file; ok = its size can be read.
FileEntry(bytes, readable) == [kind |-> "file", ok |-> readable, size |-> bytes]

\* A symbolic link to LinkTarget.
SymlinkEntry == [kind |-> "symlink", ok |-> TRUE, size |-> 0]

\* A socket, a device, a pipe.
OtherEntry == [kind |-> "other", ok |-> TRUE, size |-> 0]

DirEntries == {DirEntry(l) : l \in BOOLEAN}

LeafEntries ==
    {OtherEntry, SymlinkEntry, FileEntry(2048, FALSE)}
        \cup {FileEntry(s, TRUE) : s \in FileSizes}

Parent(p) == SubSeq(p, 1, Len(p) - 1)

\* The names of the entries stored in directory d, in iteration order.
ChildNames(f, d) == {n \in Names : Append(d, n) \in DOMAIN f}

DirsOf(f) == {d \in DOMAIN f : f[d].kind = "dir"}

\* f with one more entry e, under the next free name of directory d.
Extend(f, d, e) == f @@ (Append(d, Cardinality(ChildNames(f, d)) + 1) :> e)

RECURSIVE FileSystemsOfSize(_)
FileSystemsOfSize(n) ==
    IF n = 0
    THEN {(Root :> e) : e \in DirEntries}
    ELSE UNION {{Extend(f, d, e) : d \in DirsOf(f), e \in LeafEntries \cup DirEntries}
                    : f \in FileSystemsOfSize(n - 1)}

\* Every file system of at most MaxEntries entries.
FileSystems == UNION {FileSystemsOfSize(n) : n \in 0..MaxEntries}

(***************************************************************************)
(* std::filesystem, as far as the program uses it.                         *)
(***************************************************************************)
\* What path resolution yields when a component is missing, is reached
\* through something that is no directory, or the links loop.
Missing == <<0>>

\* The stored path that p names: every symbolic link in it is followed,
\* the one in its last component only if followLast.  hops is the number of
\* links that may still be followed before the resolution gives up.
RECURSIVE ResolveFrom(_, _, _, _, _)
ResolveFrom(f, base, rest, followLast, hops) ==
    IF rest = <<>> THEN base
    ELSE IF f[base].kind # "dir" THEN Missing
    ELSE LET q == Append(base, Head(rest)) IN
         IF q \notin DOMAIN f THEN Missing
         ELSE IF f[q].kind = "symlink" /\ (followLast \/ Len(rest) > 1)
         THEN IF hops = 0 THEN Missing
              ELSE ResolveFrom(f, Root, LinkTarget \o Tail(rest), followLast, hops - 1)
         ELSE ResolveFrom(f, q, Tail(rest), followLast, hops)

Resolve(f, p, followLast) == ResolveFrom(f, Root, p, followLast, MaxEntries)

EntryAt(f, q) == IF q \in DOMAIN f THEN f[q] ELSE NoEntry

\* fs::status(p): the entry p names, links followed.
status(f, p) == EntryAt(f, Resolve(f, p, TRUE))

\* fs::symlink_status(p): the entry p names, a link in the last component kept.
symlink_status(f, p) == EntryAt(f, Resolve(f, p, FALSE))

\* The link test made on status(), which follows links and so never reports one.
is_symlink_of_status(f, entry) == status(f, entry).kind = "symlink"

\* directory_entry::is_symlink(ec)
is_symlink(f, entry) == symlink_status(f, entry).kind = "symlink"

\* The test "exists" in place of "is a directory".
is_directory_exists(f, entry) == status(f, entry).kind # "none"

\* directory_entry::is_directory(ec) && !ec
is_directory(f, entry) == status(f, entry).kind = "dir"

\* directory_entry::is_regular_file(ec) && !ec
is_regular_file(f, entry) == status(f, entry).kind = "file"

\* directory_entry::file_size(ec): the size, or ec set.
file_size(f, entry) ==
    LET st == status(f, entry) IN
    IF st.kind = "file" /\ st.ok
    THEN [ec |-> FALSE, value |-> st.size]
    ELSE [ec |-> TRUE, value |-> 0]

\* <<1, 2, ..., n>> restricted to the names in S, ascending.
RECURSIVE Ascending(_, _)
Ascending(S, from) ==
    IF from > MaxEntries THEN <<>>
    ELSE IF from \in S THEN <<from>> \o Ascending(S, from + 1)
    ELSE Ascending(S, from + 1)

\* An iterator that lists a directory whether it can be listed or not.
directory_iterator_any(f, p) ==
    LET d  == Resolve(f, p, TRUE)
        st == EntryAt(f, d)
    IN  IF st.kind = "dir"
        THEN LET names == Ascending(ChildNames(f, d), 1)
             IN  [ec |-> FALSE,
                  entries |-> [i \in 1..Len(names) |-> Append(p, names[i])]]
        ELSE [ec |-> TRUE, entries |-> <<>>]

\* fs::directory_iterator(p, ec): ec set when p is no directory that can be
\* listed; else the paths of its entries, in iteration order.
directory_iterator(f, p) ==
    LET d  == Resolve(f, p, TRUE)
        st == EntryAt(f, d)
    IN  IF st.kind = "dir" /\ st.ok
        THEN LET names == Ascending(ChildNames(f, d), 1)
             IN  [ec |-> FALSE,
                  entries |-> [i \in 1..Len(names) |-> Append(p, names[i])]]
        ELSE [ec |-> TRUE, entries |-> <<>>]

\* path::filename(): the last component, empty for a root.
filename(p) == IF p = <<>> THEN <<>> ELSE <<p[Len(p)]>>

(***************************************************************************)
(* calculateFolderSize: the recursive size walk.                           *)
(***************************************************************************)
RECURSIVE calculateFolderSize(_, _)

\* The loop with the link test guarding the directory branch alone: a link to
\* a file is counted with the size of its target.
RECURSIVE SizeLoopLinkedFiles(_, _, _)
SizeLoopLinkedFiles(f, entries, totalSize) ==
    IF entries = <<>> THEN totalSize
    ELSE LET entry == Head(entries) IN
         IF is_directory(f, entry)
         THEN IF is_symlink(f, entry)
              THEN SizeLoopLinkedFiles(f, Tail(entries), totalSize)
              ELSE SizeLoopLinkedFiles(f, Tail(entries),
                                       totalSize + calculateFolderSize(f, entry))
         ELSE IF is_regular_file(f, entry)
         THEN LET fileSize == file_size(f, entry) IN
              IF ~fileSize.ec
              THEN SizeLoopLinkedFiles(f, Tail(entries), totalSize + fileSize.value)
              ELSE SizeLoopLinkedFiles(f, Tail(entries), totalSize)
         ELSE SizeLoopLinkedFiles(f, Tail(entries), totalSize)

\* The loop over the entries of one directory, totalSize so far.
RECURSIVE SizeLoop(_, _, _)
SizeLoop(f, entries, totalSize) ==
    IF entries = <<>> THEN totalSize
    ELSE LET entry == Head(entries) IN
         IF is_symlink(f, entry)
         THEN SizeLoop(f, Tail(entries), totalSize)
         ELSE IF is_directory(f, entry)
         THEN SizeLoop(f, Tail(entries), totalSize + calculateFolderSize(f, entry))
         ELSE IF is_regular_file(f, entry)
         THEN LET fileSize == file_size(f, entry) IN
              IF ~fileSize.ec
              THEN SizeLoop(f, Tail(entries), totalSize + fileSize.value)
              ELSE SizeLoop(f, Tail(entries), totalSize)
         ELSE SizeLoop(f, Tail(entries), totalSize)

calculateFolderSize(f, folderPath) ==
    LET dirIter == directory_iterator(f, folderPath) IN
    IF dirIter.ec THEN 0
    ELSE SizeLoop(f, dirIter.entries, 0)

(***************************************************************************)
(* scanFolder: the tree builder.                                           *)
(***************************************************************************)
\* FolderInfo::FolderInfo(path): the name is the last component, or the
\* whole path when that is empty.
FolderInfo(path) ==
    [name         |-> IF filename(path) = <<>> THEN path ELSE filename(path),
     fullPath     |-> path,
     sizeBytes    |-> 0,
     children     |-> <<>>,
     accessDenied |-> FALSE]

RECURSIVE scanFolder(_, _)

\* The loop over the entries of one directory, building folder.
RECURSIVE ScanLoop(_, _, _)
ScanLoop(f, entries, folder) ==
    IF entries = <<>> THEN folder
    ELSE LET entry == Head(entries) IN
         IF is_symlink(f, entry)
         THEN ScanLoop(f, Tail(entries), folder)
         ELSE IF is_directory(f, entry)
         THEN LET child == scanFolder(f, entry) IN
              ScanLoop(f, Tail(entries),
                       [folder EXCEPT !.sizeBytes = @ + child.sizeBytes,
                                      !.children  = Append(@, child)])
         ELSE IF is_regular_file(f, entry)
         THEN LET fileSize == file_size(f, entry) IN
              IF ~fileSize.ec
              THEN ScanLoop(f, Tail(entries),
                            [folder EXCEPT !.sizeBytes = @ + fileSize.value])
              ELSE ScanLoop(f, Tail(entries), folder)
         ELSE ScanLoop(f, Tail(entries), folder)

scanFolder(f, folderPath) ==
    LET folder      == FolderInfo(folderPath)
        dirIterator == directory_iterator(f, folderPath)
    IN  IF dirIterator.ec
        THEN [folder EXCEPT !.accessDenied = TRUE]
        ELSE ScanLoop(f, dirIterator.entries, folder)

\* A comparator that puts the smaller first.
SizeBytesLess(a, b) == a.sizeBytes < b.sizeBytes

\* The comparator of sortBySize: a goes before b.
SizeBytesGreater(a, b) == a.sizeBytes > b.sizeBytes

\* std::sort of the children of a folder under SizeBytesGreater: every
\* permutation in which no child goes before one to its left.
SortedChildren(children) ==
    LET n == Len(children) IN
    {s \in {[i \in 1..n |-> children[p[i]]] : p \in Permutations(1..n)} :
        \A i, j \in 1..n : i < j => ~SizeBytesGreater(s[j], s[i])}

\* sortBySize(folder): the children are sorted, then the children of every
\* child.  The trees that folder may be afterwards.
RECURSIVE sortBySize(_)
sortBySize(folder) ==
    UNION {LET n    == Len(sorted)
               each == UNION {sortBySize(sorted[i]) : i \in 1..n}
           IN  {[folder EXCEPT !.children = c] :
                    c \in {d \in [1..n -> each] :
                              \A i \in 1..n : d[i] \in sortBySize(sorted[i])}}
              : sorted \in SortedChildren(folder.children)}

(***************************************************************************)
(* getSubfolders: the level scan.  Here as a function of the file system:  *)
(* the lists a call may return.  Its threads are stepped further below.    *)
(***************************************************************************)
\* The dispatch loop without its link test.
RECURSIVE DispatchLoopLinks(_, _)
DispatchLoopLinks(f, entries) ==
    IF entries = <<>> THEN <<>>
    ELSE LET entry == Head(entries) IN
         IF is_directory(f, entry)
         THEN <<[name |-> filename(entry), path |-> entry]>>
                  \o DispatchLoopLinks(f, Tail(entries))
         ELSE DispatchLoopLinks(f, Tail(entries))

\* The dispatch loop: the tasks launched for the entries, in iteration
\* order.  A task is launched for an entry that is a directory and no link.
RECURSIVE DispatchLoop(_, _)
DispatchLoop(f, entries) ==
    IF entries = <<>> THEN <<>>
    ELSE LET entry == Head(entries) IN
         IF is_directory(f, entry) /\ ~is_symlink(f, entry)
         THEN <<[name |-> filename(entry), path |-> entry]>>
                  \o DispatchLoop(f, Tail(entries))
         ELSE DispatchLoop(f, Tail(entries))

\* The FolderEntry the collect loop makes of a task and its future's value.
FolderEntry(task, value) ==
    [name |-> task.name, path |-> task.path, size |-> value, accessDenied |-> FALSE]

\* The collect loop, every future's value being that of calculateFolderSize.
CollectLoop(f, tasks) ==
    [i \in 1..Len(tasks) |->
        FolderEntry(tasks[i], calculateFolderSize(f, tasks[i].path))]

\* The comparator turned round: smallest first.
SizeLess(a, b) == a.size < b.size

\* The comparator handed to std::sort: a goes before b.
SizeGreater(a, b) == a.size > b.size

\* std::sort(first, last, SizeGreater): some permutation in which no element
\* goes before one to its left.  The order of elements neither of which
\* goes before the other is unspecified (std::sort is not std::stable_sort;
\* past 16 elements libstdc++ partitions and does reorder them), so every
\* such permutation is a result.
std_sort(folders) ==
    LET n == Len(folders) IN
    {s \in {[i \in 1..n |-> folders[p[i]]] : p \in Permutations(1..n)} :
        \A i, j \in 1..n : i < j => ~SizeGreater(s[j], s[i])}

getSubfolders(f, parentPath) ==
    LET dirIter == directory_iterator(f, parentPath) IN
    IF dirIter.ec THEN {<<>>}
    ELSE std_sort(CollectLoop(f, DispatchLoop(f, dirIter.entries)))

(***************************************************************************)
(* Text: what is typed at a prompt, and the text of a path.  A text is the *)
(* sequence of its characters.                                             *)
(***************************************************************************)
Digits == <<"0", "1", "2", "3", "4", "5", "6", "7", "8", "9">>

\* The characters of a line, as they are told apart by what follows.
Alphabet == Digits \o <<"/", " ", "+", "-", "b", "B", "r", "R", "q", "Q", "x">>

\* The position of c in Alphabet, from 1.
CharCode(c) == CHOOSE i \in 1..Len(Alphabet) : Alphabet[i] = c

IsDigit(c) == \E i \in 1..Len(Digits) : Digits[i] = c

DigitValue(c) == CharCode(c) - 1

isspace(c) == c = " "

\* while (!input.empty() && isspace(input.front())) input.erase(input.begin());
RECURSIVE TrimFront(_)
TrimFront(input) ==
    IF input # <<>> /\ isspace(Head(input)) THEN TrimFront(Tail(input)) ELSE input

\* while (!input.empty() && isspace(input.back())) input.pop_back();
RECURSIVE TrimBack(_)
TrimBack(input) ==
    IF input # <<>> /\ isspace(input[Len(input)])
    THEN TrimBack(SubSeq(input, 1, Len(input) - 1))
    ELSE input

trim(input) == TrimBack(TrimFront(input))

\* The value of the longest run of digits that str begins with, after acc.
RECURSIVE DigitRun(_, _)
DigitRun(str, acc) ==
    IF str # <<>> /\ IsDigit(Head(str))
    THEN DigitRun(Tail(str), 10 * acc + DigitValue(Head(str)))
    ELSE acc

\* std::stoul(str), base 10: white space is skipped, one sign is taken, then
\* the longest run of digits; what follows the digits is ignored.  Without a
\* digit it throws.  After a minus sign the value is negated in unsigned
\* long: the number returned is 2^64 - value (negated, for a value above 0).
\* The lines typed here have few digits and stay below 2^64, so
\* out_of_range is not thrown.
stoul(str) ==
    LET unspaced == TrimFront(str)
        signed   == unspaced # <<>> /\ Head(unspaced) \in {"+", "-"}
        digits   == IF signed THEN Tail(unspaced) ELSE unspaced
        value    == DigitRun(digits, 0)
    IN  IF digits = <<>> \/ ~IsDigit(Head(digits))
        THEN [thrown |-> TRUE, negated |-> FALSE, value |-> 0]
        ELSE [thrown  |-> FALSE,
              negated |-> signed /\ Head(unspaced) = "-" /\ value > 0,
              value   |-> value]

\* index < size, for the size_t that stoul returned and the size of a vector:
\* a negated index is 2^64 - value and above every size.
IndexBelow(index, size) == ~index.negated /\ index.value < size

\* text is "/" or one or more times "/" and a digit from 1 to 9: the
\* absolute path of an entry as this development names entries.
IsEntryText(text) ==
    \/ text = <<"/">>
    \/ /\ text # <<>>
       /\ Len(text) % 2 = 0
       /\ \A i \in 1..Len(text) :
              IF i % 2 = 1 THEN text[i] = "/"
              ELSE IsDigit(text[i]) /\ text[i] # "0"

\* fs::path(text).  The text of an entry gives the path of that entry.  Any
\* other text is a relative path; the working directory holds nothing of
\* that name, and the components of such a path are negative numbers, one
\* for each character, which name no entry.
PathOf(text) ==
    IF text = <<"/">> THEN Root
    ELSE IF IsEntryText(text)
    THEN [i \in 1..(Len(text) \div 2) |-> DigitValue(text[2 * i])]
    ELSE [i \in 1..Len(text) |-> 0 - CharCode(text[i])]

\* path::string(): the text the path was made of.
RECURSIVE string(_)
string(p) ==
    IF p = Root THEN <<"/">>
    ELSE IF \A i \in 1..Len(p) : p[i] > 0
    THEN (IF Len(p) = 1 THEN <<>> ELSE string(Parent(p)))
             \o <<"/", Digits[p[Len(p)] + 1]>>
    ELSE [i \in 1..Len(p) |-> Alphabet[0 - p[i]]]

\* The lines typed at a prompt: the commands in both cases, blank lines,
\* white space around a command, indices inside and outside a list, digits
\* with a sign or followed by other characters, other text, and the texts
\* of paths.
Lines ==
    { <<>>, <<" ">>,
      <<"b">>, <<"B">>, <<" ", "b">>, <<"r">>, <<"R">>, <<"r", " ">>,
      <<"q">>, <<"Q">>,
      <<"0">>, <<"1">>, <<"2">>, <<"5">>,
      <<"1", "x">>, <<"+", "1">>, <<"-", "1">>, <<"-", "0">>, <<"x">>,
      <<"/">>, <<"/", "1">>, <<"/", "1", "/", "1">>, <<"/", "2">> }

\* The lines typed at the prompt of selectDrive inside the loop.
DriveLines == {<<>>, <<"/", "1">>, <<"5">>}

\* The lines typed at "Press Enter to continue": Enter alone, or Enter after
\* two characters.
Continuations == {<<>>, <<"x", "r">>}

\* getAvailableDrives(), where _WIN32 is not defined: the root alone.
getAvailableDrives == <<Root>>

\* selectDrive(), for the line typed at its prompt.
selectDrive(line) ==
    LET drives == getAvailableDrives
        input  == trim(line)
        index  == stoul(input)
    IN  IF ~index.thrown /\ IndexBelow(index, Len(drives))
        THEN drives[index.value + 1]
        ELSE IF input # <<>> THEN PathOf(input)
        ELSE drives[1]

(***************************************************************************)
(* formatSize.  A byte count is wider than the integers at hand here, so   *)
(* it is held as its digits to base 1024, the lowest first: six digits,    *)
(* the highest below 8, are the counts below 2^53, which a double holds    *)
(* exactly.  Dividing a double by 1024.0 is exact as well, so size is      *)
(* bytes / 1024^unitIndex throughout the loop.                             *)
(***************************************************************************)
Base == 1024

numUnits == 5

units == << <<"B">>, <<"K", "B">>, <<"M", "B">>, <<"G", "B">>, <<"T", "B">> >>

\* The digits a byte count is made of here: six of them.
NumberOfDigits == 6

\* The digits the byte counts looked at are made of: the ends and the middle
\* of a digit, and 128, of which 100 times is half way between two
\* multiples of 1024.
LowDigits == {0, 1, 128, 512, 1023}

TopDigits == {0, 1, 7}

ByteCounts ==
    {b \in [1..NumberOfDigits -> LowDigits \cup TopDigits] :
        /\ b[NumberOfDigits] \in TopDigits
        /\ \A j \in 1..(NumberOfDigits - 1) : b[j] \in LowDigits}

\* size >= 1024.0, size being bytes / 1024^unitIndex.
AtLeastBase(bytes, unitIndex) ==
    \E j \in 1..Len(bytes) : j > unitIndex + 1 /\ bytes[j] # 0

\* The condition of the loop of formatSize, with a unit left to move to.
KeepsDividingBelowTB(bytes, unitIndex) ==
    AtLeastBase(bytes, unitIndex) /\ unitIndex < numUnits - 2

KeepsDividing(bytes, unitIndex) ==
    AtLeastBase(bytes, unitIndex) /\ unitIndex < numUnits - 1

\* The whole part of bytes / 1024^unitIndex.
RECURSIVE WholePart(_, _)
WholePart(bytes, unitIndex) ==
    IF unitIndex >= Len(bytes) THEN 0
    ELSE bytes[unitIndex + 1]
             + Base * WholePart([bytes EXCEPT ![unitIndex + 1] = 0], unitIndex + 1)

\* 100 times the fraction of bytes / 1024^unitIndex: its whole part h, and
\* of what is left over the leading digit rem and whether more follows.
\* Digit j is taken with the carry of the digits below it.
RECURSIVE HundredthsFrom(_, _, _, _, _)
HundredthsFrom(bytes, unitIndex, j, carry, more) ==
    IF j > unitIndex THEN [h |-> carry, rem |-> 0, more |-> more]
    ELSE LET v == 100 * bytes[j] + carry IN
         IF j = unitIndex
         THEN [h |-> v \div Base, rem |-> v % Base, more |-> more]
         ELSE HundredthsFrom(bytes, unitIndex, j + 1, v \div Base,
                             more \/ (v % Base) # 0)

Hundredths(bytes, unitIndex) == HundredthsFrom(bytes, unitIndex, 1, 0, FALSE)

\* std::fixed << std::setprecision(2) << size: size in hundredths, rounded
\* to the nearest.  Of a size half way between two, the library gives the
\* even one (glibc) or the one above (older Microsoft runtimes).
FixedTwo(bytes, unitIndex) ==
    LET part  == Hundredths(bytes, unitIndex)
        below == 100 * WholePart(bytes, unitIndex) + part.h
        half  == Base \div 2
    IN  IF part.rem > half \/ (part.rem = half /\ part.more) THEN {below + 1}
        ELSE IF part.rem < half THEN {below}
        ELSE {below + 1, IF below % 2 = 0 THEN below ELSE below + 1}

\* The decimal digits of n.
RECURSIVE ToDecimal(_)
ToDecimal(n) ==
    IF n < 10 THEN <<Digits[n + 1]>>
    ELSE ToDecimal(n \div 10) \o <<Digits[(n % 10) + 1]>>

\* The text of a number of hundredths and a unit.
SizeText(hundredths, unit) ==
    ToDecimal(hundredths \div 100)
        \o <<".", Digits[((hundredths % 100) \div 10) + 1], Digits[(hundredths % 10) + 1]>>
        \o <<" ">> \o unit

(***************************************************************************)
(* State.                                                                  *)
(*   fs        the file system                                             *)
(* The two recursions, one step at a time:                                 *)
(*   walk      which recursion runs: "size" (calculateFolderSize) or       *)
(*             "tree" (scanFolder)                                         *)
(*   start     the directory it was called on                              *)
(*   wpc       "call" before the call, "loop" inside it, "done" after it,  *)
(*             "sorted" after sortBySize                                   *)
(*   stack     the call stack: per call the folder built so far (in a size *)
(*             walk only its sizeBytes, the totalSize) and the entries the *)
(*             loop has still to examine                                   *)
(*   result    what the outermost call returned                            *)
(*   examined  how often each stored path was examined by a loop           *)
(* The level scan, its threads interleaved:                                *)
(*   spc        where getSubfolders is: "open", "dispatch", "collect",     *)
(*              "returned"                                                 *)
(*   pending    the entries the dispatch loop has still to examine         *)
(*   tasks      the tasks launched; done = the future is ready, value =    *)
(*              what it holds then                                         *)
(*   subfolders the vector folders of getSubfolders                        *)
(*   returned   what getSubfolders returned                                *)
(* main and its interactive loop:                                          *)
(*   currentPath, globalCache, history, folders, needsScan                 *)
(*              the variables of main of these names                       *)
(*   pc         where main is: "start", "scan" (the top of the loop),      *)
(*              "erased" and "popped" (the top of the loop, come to from   *)
(*              the branch of "r" and from the pop of "b"), "store",       *)
(*              "display", "prompt", "exit"                                *)
(*   cin        what is left in std::cin of a line read in part: empty,    *)
(*              or one element, the rest of that line                      *)
(*   changes    how often the file system was changed under the program    *)
(* No variable of the program, kept to state what the history is for:      *)
(*   trail      for every folder entered and not yet left by "b", the      *)
(*              current path and the history as they were before it was    *)
(*              entered                                                    *)
(***************************************************************************)
VARIABLES fs, walk, start, wpc, stack, result, examined,
          spc, pending, tasks, subfolders, returned,
          currentPath, globalCache, history, folders, needsScan, pc, cin,
          changes, trail,
          bytes, unitIndex, formatted, fpc,
          detected, answer, chosen, dpc

walkVars == <<walk, start, wpc, stack, result, examined>>

scanVars == <<spc, pending, tasks, subfolders, returned>>

mainVars == <<currentPath, globalCache, history, folders, needsScan, pc, cin,
              changes, trail>>

formatVars == <<bytes, unitIndex, formatted, fpc>>

driveVars == <<detected, answer, chosen, dpc>>

vars == <<fs, walkVars, scanVars, mainVars, formatVars, driveVars>>

\* No call of formatSize is under way.
FormatIdle ==
    /\ bytes = <<>>
    /\ unitIndex = 0
    /\ formatted = <<>>
    /\ fpc = "idle"

\* No call of selectDrive is looked at by itself.
DriveIdle ==
    /\ detected = <<>>
    /\ answer = <<>>
    /\ chosen = <<>>
    /\ dpc = "idle"

\* std::map<std::string, std::vector<FolderEntry>>, empty.
EmptyCache == [key \in {} |-> <<>>]

MainIdle ==
    /\ currentPath = Root
    /\ globalCache = EmptyCache
    /\ history = <<>>
    /\ folders = <<>>
    /\ needsScan = TRUE
    /\ pc = "idle"
    /\ cin = <<>>
    /\ changes = 0
    /\ trail = <<>>

NoResult == [none |-> TRUE]

WalkIdle ==
    /\ walk = "size"
    /\ start = Root
    /\ wpc = "idle"
    /\ stack = <<>>
    /\ result = NoResult
    /\ examined = <<>>

ScanIdle ==
    /\ spc = "idle"
    /\ pending = <<>>
    /\ tasks = <<>>
    /\ subfolders = <<>>
    /\ returned = <<>>

\* One more examination of the stored path that p names.
Examine(bag, p) ==
    LET q == Resolve(fs, p, FALSE) IN
    IF q \in DOMAIN bag THEN [bag EXCEPT ![q] = @ + 1] ELSE bag @@ (q :> 1)

\* What a call returns for the folder it built.
Returned(mode, folder) == IF mode = "size" THEN folder.sizeBytes ELSE folder

\* The child is kept and its size is not added.
AccumulateChildOnly(mode, folder, child) ==
    IF mode = "size" THEN folder
    ELSE [folder EXCEPT !.children = Append(@, child)]

\* The caller's folder after a recursive call returned child.
Accumulate(mode, folder, child) ==
    IF mode = "size"
    THEN [folder EXCEPT !.sizeBytes = @ + child.sizeBytes]
    ELSE [folder EXCEPT !.sizeBytes = @ + child.sizeBytes,
                        !.children  = Append(@, child)]

\* What a call on path returns when the directory cannot be listed.
Denied(mode, path) ==
    IF mode = "size"
    THEN FolderInfo(path)
    ELSE [FolderInfo(path) EXCEPT !.accessDenied = TRUE]

WalkInit ==
    /\ fs \in FileSystems
    /\ walk \in {"size", "tree"}
    /\ start = Root
    /\ wpc = "call"
    /\ stack = <<>>
    /\ result = NoResult
    /\ examined = <<>>
    /\ ScanIdle
    /\ MainIdle
    /\ FormatIdle
    /\ DriveIdle

\* The outermost call: the directory iterator is opened on start.
WalkBegin ==
    /\ wpc = "call"
    /\ LET dirIter == directory_iterator(fs, start) IN
       IF dirIter.ec
       THEN /\ result' = Returned(walk, Denied(walk, start))
            /\ wpc' = "done"
            /\ stack' = stack
       ELSE /\ stack' = <<[folder |-> FolderInfo(start), entries |-> dirIter.entries]>>
            /\ wpc' = "loop"
            /\ result' = result
    /\ examined' = Examine(examined, start)
    /\ UNCHANGED <<fs, mainVars, formatVars, driveVars, walk, start, scanVars>>

\* One iteration of the loop of the innermost call.
WalkEntry ==
    /\ wpc = "loop"
    /\ stack[Len(stack)].entries # <<>>
    /\ LET n     == Len(stack)
           entry == Head(stack[n].entries)
           rest  == [stack EXCEPT ![n].entries = Tail(@)]
       IN  /\ examined' = Examine(examined, entry)
           /\ IF is_symlink(fs, entry)
              THEN stack' = rest
              ELSE IF is_directory(fs, entry)
              THEN LET dirIter == directory_iterator(fs, entry) IN
                   IF dirIter.ec
                   THEN stack' = [rest EXCEPT ![n].folder =
                                     Accumulate(walk, @, Denied(walk, entry))]
                   ELSE stack' = Append(rest, [folder  |-> FolderInfo(entry),
                                               entries |-> dirIter.entries])
              ELSE IF is_regular_file(fs, entry)
              THEN LET fileSize == file_size(fs, entry) IN
                   IF ~fileSize.ec
                   THEN stack' = [rest EXCEPT ![n].folder.sizeBytes = @ + fileSize.value]
                   ELSE stack' = rest
              ELSE stack' = rest
    /\ UNCHANGED <<fs, mainVars, formatVars, driveVars, walk, start, wpc, result, scanVars>>

\* The loop of the innermost call is over: the call returns to its caller.
WalkReturn ==
    /\ wpc = "loop"
    /\ stack[Len(stack)].entries = <<>>
    /\ LET n     == Len(stack)
           child == stack[n].folder
       IN  IF n = 1
           THEN /\ result' = Returned(walk, child)
                /\ wpc' = "done"
                /\ stack' = <<>>
           ELSE /\ stack' = [SubSeq(stack, 1, n - 1) EXCEPT ![n - 1].folder =
                                 Accumulate(walk, @, child)]
                /\ UNCHANGED <<wpc, result>>
    /\ UNCHANGED <<fs, mainVars, formatVars, driveVars, walk, start, examined, scanVars>>

WalkNext == WalkBegin \/ WalkEntry \/ WalkReturn

WalkSpec == WalkInit /\ [][WalkNext]_vars

\* The step-by-step recursion returns what the recursive definition gives.
WalkAgrees ==
    wpc = "done" =>
        result = IF walk = "size" THEN calculateFolderSize(fs, start)
                 ELSE scanFolder(fs, start)

(***************************************************************************)
(* The main that prints a tree: scanFolder, one step at a time, then       *)
(* sortBySize.  Its path was checked to be a directory.                    *)
(***************************************************************************)
TreeInit == WalkInit /\ walk = "tree"

\* diskscope::sortBySize(result)
SortTree ==
    /\ wpc = "done"
    /\ walk = "tree"
    /\ result' \in sortBySize(result)
    /\ wpc' = "sorted"
    /\ UNCHANGED <<fs, mainVars, formatVars, driveVars, walk, start, stack, examined, scanVars>>

TreeNext == WalkBegin \/ WalkEntry \/ WalkReturn \/ SortTree

TreeSpec == TreeInit /\ [][TreeNext]_vars

(***************************************************************************)
(* getSubfolders(Root), one step of one thread at a time.  The file system *)
(* stays as it is while the scan runs.                                     *)
(***************************************************************************)
ScanInit ==
    /\ fs \in FileSystems
    /\ WalkIdle
    /\ spc = "open"
    /\ pending = <<>>
    /\ tasks = <<>>
    /\ subfolders = <<>>
    /\ returned = <<>>
    /\ MainIdle
    /\ FormatIdle
    /\ DriveIdle

AfterDispatch(left) == IF left = <<>> THEN "collect" ELSE "dispatch"

\* The directory iterator is opened on the parent path.
ScanOpen ==
    /\ spc = "open"
    /\ LET dirIter == directory_iterator(fs, Root) IN
       IF dirIter.ec
       THEN /\ spc' = "returned"
            /\ returned' = subfolders
            /\ pending' = pending
       ELSE /\ spc' = AfterDispatch(dirIter.entries)
            /\ pending' = dirIter.entries
            /\ returned' = returned
    /\ UNCHANGED <<fs, mainVars, formatVars, driveVars, walkVars, tasks, subfolders>>

\* One iteration of the dispatch loop: std::async launches a thread for an
\* entry that is a directory and no link.
ScanDispatch ==
    /\ spc = "dispatch"
    /\ LET entry == Head(pending) IN
       /\ tasks' = IF is_directory(fs, entry) /\ ~is_symlink(fs, entry)
                   THEN Append(tasks, [name  |-> filename(entry),
                                       path  |-> entry,
                                       done  |-> FALSE,
                                       value |-> 0])
                   ELSE tasks
       /\ pending' = Tail(pending)
       /\ spc' = AfterDispatch(Tail(pending))
    /\ UNCHANGED <<fs, mainVars, formatVars, driveVars, walkVars, subfolders, returned>>

\* The thread of task i runs calculateFolderSize to its end and makes the
\* future ready.  It reads the file system and writes its future alone.
TaskRun(i) ==
    /\ ~tasks[i].done
    /\ tasks' = [tasks EXCEPT ![i].done = TRUE,
                              ![i].value = calculateFolderSize(fs, tasks[i].path)]
    /\ UNCHANGED <<fs, mainVars, formatVars, driveVars, walkVars, spc, pending, subfolders, returned>>

\* A get that does not wait: it takes what the future holds now.
FutureGetNoWait(task) == [ready |-> TRUE, value |-> task.value]

\* task.future.get(): blocks until the future is ready, then yields its value.
FutureGet(task) == [ready |-> task.done, value |-> task.value]

\* One iteration of the collect loop, for the next task in dispatch order.
ScanCollect ==
    /\ spc = "collect"
    /\ Len(subfolders) < Len(tasks)
    /\ LET task == tasks[Len(subfolders) + 1]
           got  == FutureGet(task)
       IN  /\ got.ready
           /\ subfolders' = Append(subfolders, FolderEntry(task, got.value))
    /\ UNCHANGED <<fs, mainVars, formatVars, driveVars, walkVars, spc, pending, tasks, returned>>

\* Every task is collected: the vector is sorted and returned.
ScanSort ==
    /\ spc = "collect"
    /\ Len(subfolders) = Len(tasks)
    /\ returned' \in std_sort(subfolders)
    /\ spc' = "returned"
    /\ UNCHANGED <<fs, mainVars, formatVars, driveVars, walkVars, pending, tasks, subfolders>>

ScanNext ==
    \/ ScanOpen
    \/ ScanDispatch
    \/ \E i \in 1..Len(tasks) : TaskRun(i)
    \/ ScanCollect
    \/ ScanSort

ScanSpec == ScanInit /\ [][ScanNext]_vars

\* The stepped scan returns one of the lists of the function getSubfolders.
ScanAgrees == spc = "returned" => returned \in getSubfolders(fs, Root)

(***************************************************************************)
(* main.  The file system changes only while the program waits at its      *)
(* prompt; a level scan reads one file system from its start to its end.   *)
(***************************************************************************)
\* How often the file system changes under the running program.
MaxFsChanges == 1

\* What an entry is after a change.
ChangeEntries == DirEntries \cup {FileEntry(100, TRUE), SymlinkEntry}

\* The file systems one change away from f: an entry is created, the entry
\* created last in its directory is removed, or an entry becomes another.
Created(f) ==
    IF Cardinality(DOMAIN f) <= MaxEntries
    THEN {Extend(f, d, e) : d \in DirsOf(f), e \in ChangeEntries}
    ELSE {}

Removed(f) ==
    {[q \in DOMAIN f \ {p} |-> f[q]] :
        p \in {q \in DOMAIN f \ {Root} :
                  /\ ChildNames(f, q) = {}
                  /\ q[Len(q)] = Cardinality(ChildNames(f, Parent(q)))}}

Rewritten(f) ==
    UNION {{[f EXCEPT ![p] = e] :
               e \in (IF p # Root /\ ChildNames(f, p) = {}
                      THEN ChangeEntries
                      ELSE DirEntries) \ {f[p]}}
              : p \in DOMAIN f}

\* A cache that stores nothing.
CacheStoreNothing(cache, key, value) == cache

\* A store that keeps no other entry.
CacheStoreAlone(cache, key, value) == [k \in {key} |-> value]

\* globalCache[key] = value
CacheStore(cache, key, value) ==
    [k \in DOMAIN cache \cup {key} |-> IF k = key THEN value ELSE cache[k]]

\* An erase that leaves the cache as it is.
CacheEraseNothing(cache, key) == cache

\* An erase that takes out every entry but the one of the key.
CacheEraseOthers(cache, key) == [k \in DOMAIN cache \cap {key} |-> cache[k]]

\* An erase that empties the cache.
CacheEraseAll(cache, key) == EmptyCache

\* globalCache.erase(key)
CacheErase(cache, key) == [k \in DOMAIN cache \ {key} |-> cache[k]]

\* A back that gives the first element.
back_first(v) == v[1]

\* std::vector::back()
back(v) == v[Len(v)]

\* std::vector::pop_back()
pop_back(v) == SubSeq(v, 1, Len(v) - 1)

\* A push that puts the element in front.
push_front(v, x) == <<x>> \o v

\* std::vector::push_back(x)
push_back(v, x) == Append(v, x)

\* globalCache.count(key)
CacheCount(cache, key) == IF key \in DOMAIN cache THEN 1 ELSE 0

\* std::string pathKey = currentPath.string();
pathKey == string(currentPath)

\* std::cin once a read has met the end of the input: in place of a line
\* left over the mark "EOF", which is no character of a line.
AtEnd == << <<"EOF">> >>

\* std::getline(std::cin, line): what is left of a line read in part, else a
\* line typed now; none once the end of the input was met.
Typed == IF cin = <<>> THEN Lines ELSE IF cin = AtEnd THEN {} ELSE {cin[1]}

\* std::cin.get() after a getline: the first character of the next line
\* typed is taken; the rest of that line, if it had a character, stays.
AfterGet ==
    {IF next = <<>> THEN <<>> ELSE <<Tail(next)>> : next \in Continuations}

\* main is at the top of its loop.
AtLoopTop == pc \in {"scan", "erased", "popped"}

\* The top of the loop: needsScan and folders are made anew.
LoopTop ==
    /\ needsScan' = TRUE
    /\ folders' = <<>>
    /\ pc' = "scan"

\* What the file system holds when main starts: directories that can be
\* listed and files.  The other kinds of entry appear by a change.
StartEntries == {DirEntry(TRUE), FileEntry(2048, TRUE)}

StartFileSystems ==
    {f \in FileSystems : \A p \in DOMAIN f : f[p] \in StartEntries}

MainInit ==
    /\ fs \in StartFileSystems
    /\ WalkIdle
    /\ ScanIdle
    /\ FormatIdle
    /\ DriveIdle
    /\ currentPath = Root
    /\ globalCache = EmptyCache
    /\ history = <<>>
    /\ folders = <<>>
    /\ needsScan = TRUE
    /\ pc = "start"
    /\ cin = <<>>
    /\ changes = 0
    /\ trail = <<>>

\* The starting path is checked: fs::exists and fs::is_directory, else main
\* returns 1.
Start(path) ==
    /\ pc = "start"
    /\ currentPath' = path
    /\ pc' = IF status(fs, path).kind # "none" /\ is_directory(fs, path)
             THEN "scan" ELSE "exit"
    /\ UNCHANGED <<fs, walkVars, scanVars, formatVars, driveVars, trail, globalCache, history, folders,
                   needsScan, cin, changes>>

\* main(argc > 1): the path is argv[1].
StartArgument == \E arg \in Lines \ {<<>>} : Start(PathOf(arg))

\* main(argc = 1): the path is chosen at the prompt of selectDrive.
StartSelection == \E line \in Lines : Start(selectDrive(line))

\* The path is a key of the cache: the stored list is taken.
CacheHit ==
    /\ AtLoopTop
    /\ CacheCount(globalCache, pathKey) # 0
    /\ folders' = globalCache[pathKey]
    /\ needsScan' = FALSE
    /\ pc' = "display"
    /\ UNCHANGED <<fs, walkVars, scanVars, formatVars, driveVars, trail, currentPath, globalCache, history,
                   cin, changes>>

\* The path is no key of the cache: folders = getSubfolders(currentPath).
Scan ==
    /\ AtLoopTop
    /\ CacheCount(globalCache, pathKey) = 0
    /\ needsScan
    /\ folders' \in getSubfolders(fs, currentPath)
    /\ pc' = "store"
    /\ UNCHANGED <<fs, walkVars, scanVars, formatVars, driveVars, trail, currentPath, globalCache, history,
                   needsScan, cin, changes>>

\* globalCache[pathKey] = folders
Store ==
    /\ pc = "store"
    /\ globalCache' = CacheStore(globalCache, pathKey, folders)
    /\ pc' = "display"
    /\ UNCHANGED <<fs, walkVars, scanVars, formatVars, driveVars, trail, currentPath, history, folders,
                   needsScan, cin, changes>>

\* displayCurrentLevel(currentPath, folders)
Display ==
    /\ pc = "display"
    /\ pc' = "prompt"
    /\ UNCHANGED <<fs, walkVars, scanVars, formatVars, driveVars, trail, currentPath, globalCache, history,
                   folders, needsScan, cin, changes>>

\* What the loop does with the line read at its prompt: getline, trim, and
\* the branch taken.  Each branch ends the iteration but "q".

\* The branches with the commands in lower case alone.
BranchLowerCase(line, size) ==
    LET input == trim(line) IN
    IF input = <<>> THEN "continue"
    ELSE IF input = <<"b">> THEN "back"
    ELSE IF input = <<"r">> THEN "refresh"
    ELSE IF input = <<"q">> THEN "quit"
    ELSE LET index == stoul(input) IN
         IF index.thrown THEN "invalid input"
         ELSE IF IndexBelow(index, size) THEN "enter"
         ELSE "invalid selection"

\* The branch main takes on a line, size folders being displayed.
Branch(line, size) ==
    LET input == trim(line) IN
    IF input = <<>> THEN "continue"
    ELSE IF input \in {<<"b">>, <<"B">>} THEN "back"
    ELSE IF input \in {<<"r">>, <<"R">>} THEN "refresh"
    ELSE IF input \in {<<"q">>, <<"Q">>} THEN "quit"
    ELSE LET index == stoul(input) IN
         IF index.thrown THEN "invalid input"
         ELSE IF IndexBelow(index, size) THEN "enter"
         ELSE "invalid selection"

\* An empty line: continue.
EmptyLine ==
    /\ pc = "prompt"
    /\ \E line \in Typed : Branch(line, Len(folders)) = "continue"
    /\ cin' = <<>>
    /\ LoopTop
    /\ UNCHANGED <<fs, walkVars, scanVars, formatVars, driveVars, trail, currentPath, globalCache, history,
                   changes>>

\* The input is at its end: getline fails and leaves input empty: continue.
\* (Met by another read, in selectDrive or std::cin.get(), the end gives
\* what an empty line gives there, and is met again by the next getline.)
EndOfInput ==
    /\ pc = "prompt"
    /\ cin \in {<<>>, AtEnd}
    /\ cin' = AtEnd
    /\ LoopTop
    /\ UNCHANGED <<fs, walkVars, scanVars, formatVars, driveVars, trail, currentPath, globalCache, history,
                   changes>>

\* "b" with a history: the path pushed last becomes the current path.
Back ==
    /\ pc = "prompt"
    /\ history # <<>>
    /\ \E line \in Typed : Branch(line, Len(folders)) = "back"
    /\ currentPath' = back(history)
    /\ history' = pop_back(history)
    /\ trail' = SubSeq(trail, 1, Len(trail) - 1)
    /\ cin' = <<>>
    /\ needsScan' = TRUE
    /\ folders' = <<>>
    /\ pc' = "popped"
    /\ UNCHANGED <<fs, walkVars, scanVars, formatVars, driveVars, globalCache, changes>>

\* "b" without a history: the path is what selectDrive returns for the line
\* typed at its prompt.
Reselect ==
    /\ pc = "prompt"
    /\ \E line \in Typed : Branch(line, Len(folders)) = "back"
    /\ history = <<>>
    /\ \E line \in DriveLines : currentPath' = selectDrive(line)
    /\ cin' = <<>>
    /\ LoopTop
    /\ UNCHANGED <<fs, walkVars, scanVars, formatVars, driveVars, trail, globalCache, history, changes>>

\* "r": the entry of the current path is erased.
Refresh ==
    /\ pc = "prompt"
    /\ pc' = "erased"
    /\ \E line \in Typed : Branch(line, Len(folders)) = "refresh"
    /\ globalCache' = CacheErase(globalCache, pathKey)
    /\ cin' = <<>>
    /\ needsScan' = TRUE
    /\ folders' = <<>>
    /\ UNCHANGED <<fs, walkVars, scanVars, formatVars, driveVars, trail, currentPath, history, changes>>

\* "q": break, and main returns: its variables are no more.
Quit ==
    /\ pc = "prompt"
    /\ pc' = "exit"
    /\ \E line \in Typed : Branch(line, Len(folders)) = "quit"
    /\ cin' = <<>>
    /\ currentPath' = Root
    /\ globalCache' = EmptyCache
    /\ history' = <<>>
    /\ folders' = <<>>
    /\ needsScan' = TRUE
    /\ trail' = <<>>
    /\ UNCHANGED <<fs, walkVars, scanVars, formatVars, driveVars, changes>>

\* stoul gives an index inside folders: that folder is entered.
Enter ==
    /\ pc = "prompt"
    /\ trail' = Append(trail, [path |-> currentPath, history |-> history])
    /\ \E line \in Typed :
        LET index == stoul(trim(line)) IN
        /\ Branch(line, Len(folders)) = "enter"
        /\ history' = push_back(history, currentPath)
        /\ currentPath' = folders[index.value + 1].path
    /\ cin' = <<>>
    /\ LoopTop
    /\ UNCHANGED <<fs, walkVars, scanVars, formatVars, driveVars, globalCache, changes>>

\* stoul gives an index outside folders: "Invalid selection", std::cin.get().
InvalidSelection ==
    /\ pc = "prompt"
    /\ \E line \in Typed : Branch(line, Len(folders)) = "invalid selection"
    /\ cin' \in AfterGet
    /\ LoopTop
    /\ UNCHANGED <<fs, walkVars, scanVars, formatVars, driveVars, trail, currentPath, globalCache, history,
                   changes>>

\* stoul throws: "Invalid input", std::cin.get().
InvalidInput ==
    /\ pc = "prompt"
    /\ \E line \in Typed : Branch(line, Len(folders)) = "invalid input"
    /\ cin' \in AfterGet
    /\ LoopTop
    /\ UNCHANGED <<fs, walkVars, scanVars, formatVars, driveVars, trail, currentPath, globalCache, history,
                   changes>>

\* The file system changes while the program waits for a line.
FsChange ==
    /\ pc = "prompt"
    /\ changes < MaxFsChanges
    /\ fs' \in Created(fs) \cup Removed(fs) \cup Rewritten(fs)
    /\ changes' = changes + 1
    /\ UNCHANGED <<walkVars, scanVars, formatVars, driveVars, trail, currentPath, globalCache, history,
                   folders, needsScan, pc, cin>>

Next ==
    \/ StartArgument
    \/ StartSelection
    \/ CacheHit
    \/ Scan
    \/ Store
    \/ Display
    \/ EmptyLine
    \/ EndOfInput
    \/ Back
    \/ Reselect
    \/ Refresh
    \/ Quit
    \/ Enter
    \/ InvalidSelection
    \/ InvalidInput
    \/ FsChange

Spec == MainInit /\ [][Next]_vars

(***************************************************************************)
(* formatSize(bytes), one iteration of its loop at a time.                 *)
(***************************************************************************)
FormatInit ==
    /\ fs = (Root :> DirEntry(TRUE))
    /\ WalkIdle
    /\ ScanIdle
    /\ MainIdle
    /\ DriveIdle
    /\ bytes \in ByteCounts
    /\ unitIndex = 0
    /\ formatted = <<>>
    /\ fpc = "loop"

\* size /= 1024.0; unitIndex++.
FormatDivide ==
    /\ fpc = "loop"
    /\ KeepsDividing(bytes, unitIndex)
    /\ unitIndex' = unitIndex + 1
    /\ UNCHANGED <<fs, walkVars, scanVars, mainVars, driveVars, bytes, formatted, fpc>>

\* The loop is left, size and the unit are written and the text returned.
FormatWrite ==
    /\ fpc = "loop"
    /\ ~KeepsDividing(bytes, unitIndex)
    /\ \E hundredths \in FixedTwo(bytes, unitIndex) :
           formatted' = SizeText(hundredths, units[unitIndex + 1])
    /\ fpc' = "done"
    /\ UNCHANGED <<fs, walkVars, scanVars, mainVars, driveVars, bytes, unitIndex>>

FormatNext == FormatDivide \/ FormatWrite

FormatSpec == FormatInit /\ [][FormatNext]_vars

(***************************************************************************)
(* selectDrive() by itself: a line is typed at its prompt and a path is    *)
(* returned.                                                               *)
(***************************************************************************)
\* The characters of the lines typed at the prompt of selectDrive.
DriveChars == {"0", "1", "5", "-", " ", "/", "x"}

\* The lines typed there: of at most two characters.
DriveAnswers ==
    {<<>>} \cup {<<c>> : c \in DriveChars} \cup {<<c, d>> : c, d \in DriveChars}

DriveInit ==
    /\ fs = (Root :> DirEntry(TRUE))
    /\ WalkIdle
    /\ ScanIdle
    /\ MainIdle
    /\ FormatIdle
    /\ detected = getAvailableDrives
    /\ answer \in DriveAnswers
    /\ chosen = <<>>
    /\ dpc = "prompt"

\* The line is read and the path returned.
DriveSelect ==
    /\ dpc = "prompt"
    /\ chosen' = selectDrive(answer)
    /\ dpc' = "done"
    /\ UNCHANGED <<fs, walkVars, scanVars, mainVars, formatVars, detected, answer>>

DriveNext == DriveSelect

DriveSpec == DriveInit /\ [][DriveNext]_vars

(***************************************************************************)
(* What the claims speak of.                                               *)
(***************************************************************************)
\* The immediate subdirectories of D that are no links, and its regular
\* files that are no links.
SubDirs(f, D) == {p \in DOMAIN f : Len(p) > 0 /\ Parent(p) = D /\ f[p].kind = "dir"}

FilesIn(f, D) == {p \in DOMAIN f : Len(p) > 0 /\ Parent(p) = D /\ f[p].kind = "file"}

RECURSIVE SumOf(_)
SumOf(g) ==
    IF DOMAIN g = {} THEN 0
    ELSE LET x == CHOOSE y \in DOMAIN g : TRUE
         IN  g[x] + SumOf([y \in DOMAIN g \ {x} |-> g[y]])

\* The sum the size of directory D is to be: over its subdirectories their
\* computed sizes, over its files their sizes, 0 for a file whose size
\* cannot be read; 0 altogether for a directory that cannot be listed.
MemberSum(f, D) ==
    IF ~f[D].ok THEN 0
    ELSE SumOf([S \in SubDirs(f, D) |-> calculateFolderSize(f, S)])
         + SumOf([x \in FilesIn(f, D) |-> IF f[x].ok THEN f[x].size ELSE 0])

\* f with every symbolic link removed.
WithoutLinks(f) == [p \in {q \in DOMAIN f : f[q].kind # "symlink"} |-> f[p]]

\* Every node of a tree of FolderInfo is a stored directory, no link.
RECURSIVE NodesAreDirs(_, _)
NodesAreDirs(f, node) ==
    /\ node.fullPath \in DOMAIN f
    /\ f[node.fullPath].kind = "dir"
    /\ \A i \in 1..Len(node.children) : NodesAreDirs(f, node.children[i])

\* C1: for every directory D, calculateFolderSize(D) is the sum of
\* calculateFolderSize(S) over the immediate subdirectories S of D that are no
\* links plus the sizes of the regular files directly in D that are no links;
\* a directory that cannot be listed gives 0, a file whose size cannot be
\* read adds 0, and so does an entry of any other kind.  Stated of every
\* directory of the file system a walk was run on, and of what the stepped
\* size walk returned.
C1_SizeIsSumOfMembers ==
    wpc = "done" =>
        /\ \A D \in DirsOf(fs) : calculateFolderSize(fs, D) = MemberSum(fs, D)
        /\ walk = "size" => result = MemberSum(fs, start)

\* A size walk has returned a total over a file that counts, next to a
\* subdirectory that cannot be listed and holds a file.
C1_Witness ==
    /\ wpc = "done"
    /\ walk = "size"
    /\ result > 0
    /\ \E S \in SubDirs(fs, Root) : ~fs[S].ok /\ FilesIn(fs, S) # {}

\* C2: symbolic links never count and are never entered: calculateFolderSize,
\* scanFolder and getSubfolders give on a file system what they give on the
\* same file system with every link removed, and no link is a node of a built
\* tree or an entry of a level scan.
C2_LinksNeverCount ==
    wpc = "done" =>
        LET g == WithoutLinks(fs) IN
        /\ \A D \in DirsOf(fs) :
            /\ calculateFolderSize(fs, D) = calculateFolderSize(g, D)
            /\ scanFolder(fs, D) = scanFolder(g, D)
            /\ getSubfolders(fs, D) = getSubfolders(g, D)
            /\ NodesAreDirs(fs, scanFolder(fs, D))
            /\ \A r \in getSubfolders(fs, D) : \A i \in 1..Len(r) :
                  r[i].path \in DOMAIN fs /\ fs[r[i].path].kind = "dir"
        /\ walk = "size" => result = calculateFolderSize(g, start)
        /\ walk = "tree" => result = scanFolder(g, start) /\ NodesAreDirs(fs, result)

\* A tree has been built whose walk examined a link to a directory that
\* holds a file.
C2_Witness ==
    /\ wpc = "done"
    /\ walk = "tree"
    /\ \E p \in DOMAIN examined :
        /\ fs[p].kind = "symlink"
        /\ is_directory(fs, p)
        /\ calculateFolderSize(fs, LinkTarget) > 0

\* The stored paths no loop has examined yet, counted twice, plus the depth
\* of the call stack, plus one before the outermost call.
Rank ==
    2 * Cardinality(DOMAIN fs \ DOMAIN examined) + Len(stack)
        + (IF wpc = "call" THEN 1 ELSE 0)

\* No stored path was examined twice.
VisitedOnce == \A p \in DOMAIN examined : examined[p] <= 1

\* Every call on the stack is on a stored directory, reached through no link.
NoLinkFollowed ==
    \A i \in 1..Len(stack) :
        /\ stack[i].folder.fullPath \in DOMAIN fs
        /\ fs[stack[i].folder.fullPath].kind = "dir"

\* C3: calculateFolderSize and scanFolder terminate on every finite tree,
\* link cycles included.  Every step of either recursion lowers Rank, a
\* natural number, and leaves a state that is done or has a next step; no
\* stored path is examined twice and no call is ever on a link.
C3_WalkTerminates ==
    [][/\ Rank' < Rank
       /\ VisitedOnce'
       /\ NoLinkFollowed'
       /\ wpc' = "done" \/ (wpc' = "loop" /\ stack' # <<>>)]_vars

\* A walk is done that examined a link cycle: a link inside the directory it
\* points to.
C3_Witness ==
    /\ wpc = "done"
    /\ \E p \in DOMAIN examined :
        /\ fs[p].kind = "symlink"
        /\ Len(p) > Len(LinkTarget)
        /\ SubSeq(p, 1, Len(LinkTarget)) = LinkTarget
        /\ fs[LinkTarget].kind = "dir"
        /\ fs[LinkTarget].ok

\* C4: getSubfolders is a barrier.  It launches exactly one task for each
\* immediate subdirectory that is no link; what it has collected, and what it
\* returns, holds only values of futures that are ready; and when it has
\* returned every task is done and has its entry, with its value, in the list.
C4_Barrier ==
    /\ \A S \in SubDirs(fs, Root) :
          Cardinality({i \in 1..Len(tasks) : tasks[i].path = S}) <= 1
    /\ \A k \in 1..Len(subfolders) :
          /\ tasks[k].done
          /\ subfolders[k] = FolderEntry(tasks[k], calculateFolderSize(fs, tasks[k].path))
    /\ spc = "returned" =>
          /\ fs[Root].ok =>
                \A S \in SubDirs(fs, Root) :
                    Cardinality({i \in 1..Len(tasks) : tasks[i].path = S}) = 1
          /\ \A i \in 1..Len(tasks) : tasks[i].done /\ tasks[i].path \in SubDirs(fs, Root)
          /\ Len(returned) = Len(tasks)
          /\ \A i \in 1..Len(tasks) : \E j \in 1..Len(returned) :
                returned[j] = FolderEntry(tasks[i], tasks[i].value)

\* The scan waits in its collect loop for its first task while a task
\* launched later is done already.
C4_Witness ==
    /\ spc = "collect"
    /\ Len(tasks) >= 2
    /\ subfolders = <<>>
    /\ ~tasks[1].done
    /\ tasks[2].done
    /\ tasks[2].value > 0

\* s is t with its elements in some order.
IsPermutation(s, t) ==
    /\ Len(s) = Len(t)
    /\ \E p \in Permutations(1..Len(t)) : s = [i \in 1..Len(t) |-> t[p[i]]]

\* C5: the list getSubfolders returns is in descending order of size, and is
\* a permutation of the entries collected from the tasks.
C5_SortedDescending ==
    spc = "returned" =>
        /\ \A i \in 1..(Len(returned) - 1) : returned[i].size >= returned[i + 1].size
        /\ IsPermutation(returned, subfolders)

\* A returned list that the sort had to reorder.
C5_Witness ==
    /\ spc = "returned"
    /\ Len(returned) >= 2
    /\ returned # subfolders
    /\ returned[1].size > returned[Len(returned)].size

\* Where entry e stands in the sequence s of distinct entries.
IndexIn(s, e) == CHOOSE i \in 1..Len(s) : s[i] = e

\* C6 as claimed: the sort is stable, entries of equal size keep the order of
\* the directory iteration.
C6_Stable ==
    spc = "returned" =>
        \A i, j \in 1..Len(returned) :
            (i < j /\ returned[i].size = returned[j].size)
                => IndexIn(subfolders, returned[i]) < IndexIn(subfolders, returned[j])

\* s with e inserted before the first element smaller than e.
RECURSIVE InsertBySize(_, _)
InsertBySize(s, e) ==
    IF s = <<>> THEN <<e>>
    ELSE IF e.size > Head(s).size THEN <<e>> \o s
    ELSE <<Head(s)>> \o InsertBySize(Tail(s), e)

\* The stable descending sort of s.
RECURSIVE StableBySize(_)
StableBySize(s) ==
    IF s = <<>> THEN <<>>
    ELSE InsertBySize(StableBySize(SubSeq(s, 1, Len(s) - 1)), s[Len(s)])

SizesOf(s) == [i \in 1..Len(s) |-> s[i].size]

\* C6 as amended: the sort orders by size alone.  For a fixed listing and
\* fixed sizes the sequence of sizes returned is the one of the stable sort,
\* and two entries of different size come larger first; entries of equal
\* size come in any order.
C6_SizesDetermined ==
    spc = "returned" =>
        /\ SizesOf(returned) = SizesOf(StableBySize(subfolders))
        /\ \A i, j \in 1..Len(returned) :
              returned[i].size > returned[j].size => i < j
        /\ StableBySize(subfolders) \in std_sort(subfolders)

\* A returned list in which two entries of equal size come in the reverse
\* of the iteration order.
C6_Witness ==
    /\ spc = "returned"
    /\ Len(returned) = 2
    /\ returned[1].size = returned[2].size
    /\ returned = <<subfolders[2], subfolders[1]>>

\* The file system of the end-to-end scenario: under the root a subfolder
\* with a file of 2048 bytes, and a file of 100 bytes.
ScenarioFs ==
    (Root :> DirEntry(TRUE)) @@ (<<1>> :> DirEntry(TRUE))
        @@ (<<1, 1>> :> FileEntry(2048, TRUE)) @@ (<<2>> :> FileEntry(100, TRUE))

\* C7: for a directory P that can be listed, getSubfolders(P) holds exactly
\* one entry for each immediate subdirectory of P that is no link, and nothing
\* else; the entry's path is the subdirectory, its name the last component,
\* its size calculateFolderSize of it.  In the scenario the root has size 2148
\* and the scan gives the one subfolder, with size 2048.
C7_OneEntryPerSubfolder ==
    (spc = "returned" /\ fs[Root].ok) =>
        /\ {returned[i].path : i \in 1..Len(returned)} = SubDirs(fs, Root)
        /\ Len(returned) = Cardinality(SubDirs(fs, Root))
        /\ \A i \in 1..Len(returned) :
              /\ returned[i].size = calculateFolderSize(fs, returned[i].path)
              /\ returned[i].name = filename(returned[i].path)
        /\ fs = ScenarioFs =>
              /\ calculateFolderSize(fs, Root) = 2148
              /\ returned = <<[name |-> <<1>>, path |-> <<1>>, size |-> 2048,
                               accessDenied |-> FALSE]>>

\* The scan of the scenario has returned.
C7_Witness == spc = "returned" /\ fs = ScenarioFs


(***************************************************************************)
(* The cache of main.                                                      *)
(***************************************************************************)
\* C8: a list stored in the cache under a path stays there as it is,
\* whatever becomes of the file system and whichever other paths are viewed,
\* scanned or refreshed, until "r" is typed while that path is the current
\* one (or main returns); and a view of a path that is a key shows the
\* stored list.
C8_StaleUntilRefresh ==
    [][/\ \A key \in DOMAIN globalCache :
              \/ key \in DOMAIN globalCache' /\ globalCache'[key] = globalCache[key]
              \/ Refresh /\ key = pathKey
              \/ pc' = "exit"
       /\ (AtLoopTop /\ pathKey \in DOMAIN globalCache) =>
              /\ pc' = "display"
              /\ currentPath' = currentPath
              /\ folders' = globalCache[pathKey]
       /\ pc = "display" => pc' = "prompt" /\ folders' = folders]_vars

\* A stored list is shown again after the file system changed and another
\* path was viewed, and it is not what a scan would give now.
C8_Witness ==
    /\ pc = "prompt"
    /\ ~needsScan
    /\ changes > 0
    /\ folders \notin getSubfolders(fs, currentPath)
    /\ \E key \in DOMAIN globalCache : key # pathKey

\* C9: "r" takes the entry of the current path out of the cache and leaves
\* the current path and the history as they are; the iteration after it
\* scans the current path in the file system as it is then, stores the list
\* under the current path and displays it.
C9_RefreshRescans ==
    [][/\ Refresh =>
              /\ pathKey \notin DOMAIN globalCache'
              /\ currentPath' = currentPath
              /\ history' = history
              /\ pc' = "erased"
       /\ pc = "erased" =>
              /\ pc' = "store"
              /\ fs' = fs
              /\ currentPath' = currentPath
              /\ folders' \in getSubfolders(fs, currentPath)
       /\ pc = "store" =>
              /\ pc' = "display"
              /\ currentPath' = currentPath
              /\ folders' = folders
              /\ pathKey \in DOMAIN globalCache'
              /\ globalCache'[pathKey] = folders
       /\ pc = "display" =>
              /\ pc' = "prompt"
              /\ currentPath' = currentPath
              /\ folders' = folders]_vars

\* "r" was typed in a folder that was entered, after the file system changed
\* and with other paths in the cache.
C9_Witness ==
    /\ pc = "erased"
    /\ changes > 0
    /\ history # <<>>
    /\ DOMAIN globalCache # {}

\* C10: at the top of the loop a scan is made if and only if the current
\* path is no key of the cache; and whenever main displays or waits at its
\* prompt, the cache holds under the current path the list displayed.
C10_LookupBeforeScan ==
    [][/\ AtLoopTop => (Scan <=> pathKey \notin DOMAIN globalCache)
       /\ AtLoopTop => (CacheHit <=> pathKey \in DOMAIN globalCache)
       /\ pc' \in {"display", "prompt"} =>
              /\ pathKey' \in DOMAIN globalCache'
              /\ globalCache'[pathKey'] = folders']_vars

\* A list that was scanned in this iteration is about to be displayed.
C10_Witness ==
    /\ pc = "display"
    /\ needsScan
    /\ folders # <<>>
    /\ history # <<>>

\* C11: a step of the loop takes out of the cache the key of the current
\* path alone when it is the step of "r", and no key otherwise; the step of
\* "r" adds no key and leaves every other entry, those of the folders above
\* and below the current one too, with its key and its list.  (The cache
\* ends when main returns.)
C11_OnlyRefreshRemoves ==
    [][pc' # "exit" =>
          LET removed == DOMAIN globalCache \ DOMAIN globalCache' IN
          /\ Refresh =>
                /\ removed = {pathKey}
                /\ DOMAIN globalCache' = DOMAIN globalCache \ {pathKey}
                /\ \A key \in DOMAIN globalCache' :
                       globalCache'[key] = globalCache[key]
          /\ ~Refresh => removed = {}]_vars

\* "r" was typed in a folder whose parent and whose subfolder are both keys
\* of the cache, and they still are.
C11_Witness ==
    /\ pc = "erased"
    /\ Len(currentPath) = 1
    /\ string(Parent(currentPath)) \in DOMAIN globalCache
    /\ \E key \in DOMAIN globalCache :
           Len(key) = 4 /\ SubSeq(key, 1, 2) = pathKey

(***************************************************************************)
(* The history of main.                                                    *)
(***************************************************************************)
\* C12: the history holds one path for every folder entered and not yet
\* left, and a "b" that pops goes back to the path from which the folder
\* left was entered and to the history of that moment, whatever was typed
\* in between: as many "b" as folders were entered lead back through the
\* same paths in reverse order to the first one and its history.
C12_HistoryRoundTrip ==
    [][/\ Len(history') = Len(trail')
       /\ Back =>
              /\ currentPath' = trail[Len(trail)].path
              /\ history' = trail[Len(trail)].history]_vars

\* A "b" has popped its path after the file system changed, and another
\* folder entered before is still to be left.
C12_Witness ==
    /\ pc = "popped"
    /\ history # <<>>
    /\ changes > 0

\* C13: every path of the history is a key of the cache in every state, and
\* the iteration after a "b" that popped takes the stored list and makes no
\* scan.
C13_BackNeverRescans ==
    [][/\ \A i \in 1..Len(history') : string(history'[i]) \in DOMAIN globalCache'
       /\ pc = "popped" => CacheHit /\ ~Scan]_vars

\* A "b" has popped a path whose stored list is no more what a scan would
\* give.
C13_Witness ==
    /\ pc = "popped"
    /\ pathKey \in DOMAIN globalCache
    /\ globalCache[pathKey] \notin getSubfolders(fs, currentPath)

(***************************************************************************)
(* Directories that cannot be listed.                                      *)
(***************************************************************************)
\* p lies below a directory of f that cannot be listed.
BelowDenied(f, p) ==
    \E n \in 0..(Len(p) - 1) :
        LET q == SubSeq(p, 1, n) IN f[q].kind = "dir" /\ ~f[q].ok

\* f with every directory that cannot be listed made an empty directory
\* that can.
Emptied(f) ==
    [p \in {q \in DOMAIN f : ~BelowDenied(f, q)} |->
        IF f[p].kind = "dir" THEN DirEntry(TRUE) ELSE f[p]]

\* node with accessDenied false at every node.
RECURSIVE ClearDenied(_)
ClearDenied(node) ==
    [node EXCEPT !.accessDenied = FALSE,
                 !.children = [i \in 1..Len(node.children) |->
                                  ClearDenied(node.children[i])]]

\* In the tree of node, accessDenied marks the directories of f that cannot
\* be listed, and a node so marked has size 0 and no children.
RECURSIVE DeniedAreEmpty(_, _)
DeniedAreEmpty(f, node) ==
    /\ node.accessDenied <=> ~f[node.fullPath].ok
    /\ node.accessDenied => node.sizeBytes = 0 /\ node.children = <<>>
    /\ \A i \in 1..Len(node.children) : DeniedAreEmpty(f, node.children[i])

\* C14: for a directory that cannot be listed calculateFolderSize returns 0
\* and scanFolder a node with accessDenied, size 0 and no children; every
\* node with accessDenied in a tree built has size 0 and no children; and
\* but for that mark, a walk returns what it returns when these directories
\* are empty ones: what lies beside and above them is scanned all the same.
C14_DeniedIsEmpty ==
    wpc = "done" =>
        /\ \A D \in DirsOf(fs) :
               ~fs[D].ok =>
                   /\ calculateFolderSize(fs, D) = 0
                   /\ scanFolder(fs, D) = [FolderInfo(D) EXCEPT !.accessDenied = TRUE]
        /\ IF walk = "size"
           THEN result = calculateFolderSize(Emptied(fs), start)
           ELSE /\ DeniedAreEmpty(fs, result)
                /\ ClearDenied(result) = scanFolder(Emptied(fs), start)

\* The tree of a root of some size that holds a directory which cannot be
\* listed though it has entries.
C14_Witness ==
    /\ wpc = "done"
    /\ walk = "tree"
    /\ result.sizeBytes > 0
    /\ \E i \in 1..Len(result.children) :
           /\ result.children[i].accessDenied
           /\ ChildNames(fs, result.children[i].fullPath) # {}

(***************************************************************************)
(* The sizes in a tree.                                                    *)
(***************************************************************************)
\* The sizes that can be read of the files directly in directory D: none in
\* a directory that cannot be listed.
DirectFileSizes(f, D) ==
    IF ~f[D].ok THEN 0
    ELSE SumOf([x \in FilesIn(f, D) |-> IF f[x].ok THEN f[x].size ELSE 0])

\* At every node of the tree of node, the size is the sum of the sizes of
\* the children and of the files directly in the directory of the node.
RECURSIVE NodeSums(_, _)
NodeSums(f, node) ==
    /\ node.sizeBytes =
           SumOf([i \in 1..Len(node.children) |-> node.children[i].sizeBytes])
               + DirectFileSizes(f, node.fullPath)
    /\ \A i \in 1..Len(node.children) : NodeSums(f, node.children[i])

\* C15: at every node of the tree that scanFolder returns, and of that tree
\* after sortBySize, the size is the sum of the sizes of its children and
\* of the sizes, as far as they can be read, of the regular files that are
\* no links and lie directly in its directory (of a directory that cannot
\* be listed no file can be read).
C15_NodeSizeIsSum ==
    wpc \in {"done", "sorted"} => NodeSums(fs, result)

\* A sorted tree in which the second directory, of greater size, has come
\* before the first.
C15_Witness ==
    /\ wpc = "sorted"
    /\ Len(result.children) = 2
    /\ result.children[1].fullPath = <<2>>
    /\ result.children[1].sizeBytes > result.children[2].sizeBytes


\* b >= 1024^k, for a byte count b in digits to base 1024.
AtLeastPower(b, k) == k = 0 \/ \E j \in (k + 1)..Len(b) : b[j] # 0

\* The largest k in 0..4 with b >= 1024^k.
LargestUnit(b) ==
    CHOOSE k \in 0..4 :
        AtLeastPower(b, k) /\ \A m \in 0..4 : AtLeastPower(b, m) => m <= k

UnitNames == << <<"B">>, <<"K", "B">>, <<"M", "B">>, <<"G", "B">>, <<"T", "B">> >>

\* The number a run of decimal digits stands for.
RECURSIVE DecimalValue(_)
DecimalValue(digits) ==
    IF digits = <<>> THEN 0
    ELSE 10 * DecimalValue(SubSeq(digits, 1, Len(digits) - 1))
             + DigitValue(digits[Len(digits)])

\* text is a whole number without needless zeros, a point, two digits, a
\* space and the unit, the point being at position dot.
HasShape(text, dot, unit) ==
    /\ dot \in 2..Len(text)
    /\ text[dot] = "."
    /\ \A j \in 1..(dot - 1) : IsDigit(text[j])
    /\ dot > 2 => text[1] # "0"
    /\ Len(text) = dot + 3 + Len(unit)
    /\ IsDigit(text[dot + 1])
    /\ IsDigit(text[dot + 2])
    /\ text[dot + 3] = " "
    /\ SubSeq(text, dot + 4, Len(text)) = unit

\* The number of hundredths a text of that shape stands for.
HundredthsOf(text, dot) ==
    100 * DecimalValue(SubSeq(text, 1, dot - 1))
        + 10 * DigitValue(text[dot + 1]) + DigitValue(text[dot + 2])

\* m times b, in digits to base 1024, one digit more than b has.
RECURSIVE TimesFrom(_, _, _, _)
TimesFrom(b, m, j, carry) ==
    IF j > Len(b) THEN <<carry>>
    ELSE <<(m * b[j] + carry) % 1024>>
             \o TimesFrom(b, m, j + 1, (m * b[j] + carry) \div 1024)

Times(b, m) == TimesFrom(b, m, 1, 0)

\* Digit i, counted from 0, of n to base 1024.
RECURSIVE DigitOf(_, _)
DigitOf(n, i) == IF i = 0 THEN n % 1024 ELSE DigitOf(n \div 1024, i - 1)

\* n times 1024^k, in len digits to base 1024.
Shifted(n, k, len) == [j \in 1..len |-> IF j - 1 < k THEN 0 ELSE DigitOf(n, j - 1 - k)]

\* a <= b, for numbers of as many digits.
DigitsLessEq(a, b) ==
    \/ a = b
    \/ \E j \in 1..Len(a) : a[j] < b[j] /\ \A m \in (j + 1)..Len(a) : a[m] = b[m]

\* h hundredths is b / 1024^k rounded to hundredths:
\* (2h - 1) * 1024^k <= 200 * b <= (2h + 1) * 1024^k.
IsRounded(h, b, k) ==
    /\ h = 0 \/ DigitsLessEq(Shifted(2 * h - 1, k, Len(b) + 1), Times(b, 200))
    /\ DigitsLessEq(Times(b, 200), Shifted(2 * h + 1, k, Len(b) + 1))

\* The byte count n * 1024^k, n below 1024, in digits.
Bytes(n, k) == [j \in 1..NumberOfDigits |-> IF j = k + 1 THEN n ELSE 0]

\* The byte counts the specification gives the texts of.
Examples ==
    { [b |-> Bytes(0, 0),    text |-> <<"0", ".", "0", "0", " ", "B">>],
      [b |-> Bytes(1023, 0), text |-> <<"1", "0", "2", "3", ".", "0", "0", " ", "B">>],
      [b |-> Bytes(1, 1),    text |-> <<"1", ".", "0", "0", " ", "K", "B">>],
      [b |-> [Bytes(1, 1) EXCEPT ![1] = 512],
                             text |-> <<"1", ".", "5", "0", " ", "K", "B">>],
      [b |-> Bytes(1, 4),    text |-> <<"1", ".", "0", "0", " ", "T", "B">>],
      [b |-> Bytes(1, 5),    text |-> <<"1", "0", "2", "4", ".", "0", "0", " ", "T", "B">>] }

\* C16: formatSize(b) uses the unit of index k, the largest k in 0..4 with
\* b >= 1024^k, and returns b / 1024^k rounded to hundredths, written with
\* exactly two digits after the point, a space and the unit; the six byte
\* counts the specification names get the texts it names.
C16_FormatSize ==
    fpc = "done" =>
        LET k == LargestUnit(bytes) IN
        /\ unitIndex = k
        /\ \E dot \in 1..Len(formatted) :
               /\ HasShape(formatted, dot, UnitNames[k + 1])
               /\ IsRounded(HundredthsOf(formatted, dot), bytes, k)
        /\ \A e \in Examples : bytes = e.b => formatted = e.text

\* 1024^5 bytes have been formatted: the loop stopped at TB with 1024 left.
C16_Witness ==
    /\ fpc = "done"
    /\ bytes = Bytes(1, 5)
    /\ unitIndex = 4
    /\ formatted = <<"1", "0", "2", "4", ".", "0", "0", " ", "T", "B">>

\* input is one of the lines the prompt lists: digits alone, or a command.
IsListed(input) ==
    \/ input \in {<<"b">>, <<"B">>, <<"r">>, <<"R">>, <<"q">>, <<"Q">>}
    \/ input # <<>> /\ \A i \in 1..Len(input) : IsDigit(input[i])

\* The branches that reject a line: the loop goes round with nothing done.
Rejections == {"continue", "invalid input", "invalid selection"}

\* C17: at the prompt, a line (white space around it aside) that is neither
\* digits alone nor one of b, B, r, R, q, Q is rejected: main takes none of
\* the branches enter, back, refresh and quit on it; digits alone enter the
\* folder of that index when there is one.
C17_OnlyListedLinesAct ==
    pc = "prompt" =>
        \A line \in Typed :
            LET input  == trim(line)
                branch == Branch(line, Len(folders))
            IN  /\ ~IsListed(input) => branch \in Rejections
                /\ IsListed(input) /\ IsDigit(input[1]) =>
                       branch = (IF DecimalValue(input) < Len(folders)
                                 THEN "enter" ELSE "invalid selection")

\* C18: at the prompt of selectDrive digits alone that are an index into the
\* detected list select that root, digits alone that are no such index and
\* an empty line give the first detected root, and any other line is taken
\* as a path as it stands (white space around the line aside).
C18_SelectionFallsBack ==
    dpc = "done" =>
        LET input == trim(answer) IN
        IF input = <<>> THEN chosen = detected[1]
        ELSE IF \A i \in 1..Len(input) : IsDigit(input[i])
        THEN chosen = (IF DecimalValue(input) < Len(detected)
                       THEN detected[DecimalValue(input) + 1]
                       ELSE detected[1])
        ELSE chosen = PathOf(input)

\* C19: an enter with an index into the list displayed for the current path
\* P puts exactly P on top of the history, makes the path of the entry of
\* that index the current path and leaves the cache as it is; the history
\* grows by one with every enter, shrinks by one with every back that pops
\* and keeps its length in every other step of the loop.
C19_EnterPushes ==
    [][pc' # "exit" =>
        IF Enter
        THEN /\ folders = globalCache[pathKey]
             /\ history' = Append(history, currentPath)
             /\ Len(history') = Len(history) + 1
             /\ \E line \in Typed :
                    LET i == stoul(trim(line)).value IN
                    /\ Branch(line, Len(folders)) = "enter"
                    /\ i \in 0..(Len(folders) - 1)
                    /\ currentPath' = folders[i + 1].path
             /\ globalCache' = globalCache
        ELSE IF Back
        THEN Len(history') = Len(history) - 1
        ELSE Len(history') = Len(history)]_vars

\* Two enters deep, in a folder not seen before: the history holds the root
\* and the folder in between, in that order.
C19_Witness ==
    /\ pc = "scan"
    /\ history = <<Root, <<1>>>>
    /\ currentPath = <<1, 1>>
    /\ pathKey \notin DOMAIN globalCache

\* input is a line the loop is to stay put on, size folders being displayed:
\* empty, digits alone that are no index, or neither digits alone nor a
\* command.
StaysPutOn(input, size) ==
    \/ input = <<>>
    \/ ~IsListed(input)
    \/ IsDigit(input[1]) /\ IsListed(input) /\ DecimalValue(input) >= size

\* A step of one of the three branches that end the iteration with nothing
\* done.
Rejected == EmptyLine \/ InvalidSelection \/ InvalidInput

\* Such a step leaves the current path, the history and the cache as they
\* are, and the next iteration finds the path in the cache.
RejectedChangesNothing ==
    Rejected =>
        /\ currentPath' = currentPath
        /\ history' = history
        /\ globalCache' = globalCache
        /\ pc' = "scan"
        /\ pathKey' \in DOMAIN globalCache'

\* C20: an index outside the list displayed (any index when it is empty), a
\* line that is neither a number nor a command, and an empty line each take
\* a branch that leaves the current path, the history and the cache exactly
\* as they are, and the loop goes on at the same path with a hit in the
\* cache, not a scan.
C20_RejectedLinesChangeNothing ==
    [][/\ pc = "prompt" =>
              \A line \in Typed :
                  StaysPutOn(trim(line), Len(folders)) =>
                      Branch(line, Len(folders)) \in Rejections
       /\ RejectedChangesNothing
       /\ Scan => pathKey \notin DOMAIN globalCache]_vars

\* line without its white space is q or Q.
IsQuitLine(line) ==
    SelectSeq(line, LAMBDA c : c # " ") \in {<<"q">>, <<"Q">>}

\* C21: the loop is left exactly on a line that, trimmed, is q or Q: at
\* every prompt, whatever the path, the history and the cache, main takes
\* the quit branch on those lines and on no other, and q can be typed there;
\* the step that reads such a line ends main with no scan, every other read,
\* of an empty line and of the end of the input too, is followed by the
\* top of the loop, and main ends inside the loop by no other step.
C21_ExitOnlyOnQuit ==
    /\ [](pc = "prompt" =>
            /\ \A line \in Typed :
                   Branch(line, Len(folders)) = "quit" <=> IsQuitLine(line)
            /\ cin = <<>> => \E line \in Typed : IsQuitLine(line))
    /\ [][pc = "prompt" /\ pc' # "prompt" =>
              IF Quit THEN pc' = "exit" /\ ~Scan
              ELSE AtLoopTop']_vars
    /\ [][pc # "start" /\ pc' = "exit" => Quit]_vars

\* main has ended by q after a turn of the loop in which the file system
\* changed under it: the starting path was found to be a directory, so the
\* end is none of the start.
C21_Witness ==
    /\ pc = "exit"
    /\ status(fs, currentPath).kind # "none"
    /\ changes > 0

\* At every node of the tree of node no child is larger than the one before.
RECURSIVE Descending(_)
Descending(node) ==
    /\ \A i \in 1..(Len(node.children) - 1) :
           node.children[i].sizeBytes >= node.children[i + 1].sizeBytes
    /\ \A i \in 1..Len(node.children) : Descending(node.children[i])

\* after is before with children reordered and nothing else changed: name,
\* path, size and flag are the same, and the children of after are those of
\* before, one for one, each again reordered only.
RECURSIVE Reordered(_, _)
Reordered(before, after) ==
    /\ after.name = before.name
    /\ after.fullPath = before.fullPath
    /\ after.sizeBytes = before.sizeBytes
    /\ after.accessDenied = before.accessDenied
    /\ Len(after.children) = Len(before.children)
    /\ \E p \in Permutations(1..Len(before.children)) :
           \A i \in 1..Len(before.children) :
               Reordered(before.children[p[i]], after.children[i])

\* C22: after sortBySize(root) the children of every node are in
\* non-increasing order of size, and the tree is the tree before with
\* children reordered: every node keeps its children, its name, path, size
\* and accessDenied flag.
C22_SortOnlyReorders ==
    [][SortTree => Descending(result') /\ Reordered(result, result')]_vars

\* A sorted tree whose root has a child of 2048 bytes before an empty one,
\* the larger being the second in the directory.
C22_Witness ==
    /\ wpc = "sorted"
    /\ Len(result.children) = 2
    /\ result.children[1].sizeBytes = 2048
    /\ result.children[1].name = <<2>>
    /\ result.children[2].sizeBytes = 0
    /\ result.children[2].name = <<1>>

\* Nothing at p can be listed: there is nothing, or what is there is no
\* directory, or a directory that cannot be read.
CannotList(f, p) ==
    \/ p \notin DOMAIN f
    \/ f[p].kind \in {"file", "other"}
    \/ f[p].kind = "dir" /\ ~f[p].ok

\* C23: the scan of a current path that cannot be listed gives the empty
\* list; the loop stores the list scanned under the path whatever it is, and
\* what is displayed is the stored list; an empty list in the cache stays,
\* and is taken at every later visit, until the refresh of that path.
C23_UnlistableStaysEmpty ==
    [][pc' # "exit" =>
        /\ Scan /\ CannotList(fs, currentPath) => folders' = <<>>
        /\ Store =>
               globalCache' = [k \in DOMAIN globalCache \cup {pathKey} |->
                                  IF k = pathKey THEN folders ELSE globalCache[k]]
        /\ CacheHit => folders' = globalCache[pathKey]
        /\ pc = "prompt" => folders = globalCache[pathKey]
        /\ IF Refresh
           THEN \A k \in DOMAIN globalCache \ {pathKey} :
                    globalCache[k] = <<>> =>
                        k \in DOMAIN globalCache' /\ globalCache'[k] = <<>>
           ELSE \A k \in DOMAIN globalCache :
                    globalCache[k] = <<>> =>
                        k \in DOMAIN globalCache' /\ globalCache'[k] = <<>>]_vars

\* A directory with a subdirectory in it cannot be read; it is the current
\* path, its list was taken from the cache, and the list is empty.
C23_Witness ==
    /\ pc = "prompt"
    /\ ~needsScan
    /\ currentPath \in DOMAIN fs
    /\ fs[currentPath].kind = "dir"
    /\ ~fs[currentPath].ok
    /\ SubDirs(fs, currentPath) # {}
    /\ folders = <<>>

\* The children of node are the entries of list, one for one, with the same
\* name, path and size.
ChildrenMatch(node, list) ==
    /\ Len(list) = Len(node.children)
    /\ \A i \in 1..Len(node.children) :
           \E j \in 1..Len(list) :
               /\ list[j].path = node.children[i].fullPath
               /\ list[j].name = node.children[i].name
               /\ list[j].size = node.children[i].sizeBytes

\* The tree with root node agrees with the size walk and the level scan of
\* directory D of f.
TreeAgrees(f, D, node) ==
    /\ node.sizeBytes = calculateFolderSize(f, D)
    /\ \A list \in getSubfolders(f, D) : ChildrenMatch(node, list)

\* C24: on every file system the tree scanFolder builds of a directory has
\* the size calculateFolderSize returns for it, and every child of its root
\* has the size that getSubfolders reports for that subdirectory: for the
\* walks stepped from the root, and for every directory of the file system.
C24_WalkersAgree ==
    wpc = "done" =>
        /\ walk = "tree" => TreeAgrees(fs, start, result)
        /\ walk = "size" => result = scanFolder(fs, start).sizeBytes
        /\ \A D \in DOMAIN fs :
               fs[D].kind = "dir" => TreeAgrees(fs, D, scanFolder(fs, D))

\* A tree was built where a link lies beside a subdirectory with a file in
\* it: the child has the size of the file.
C24_Witness ==
    /\ wpc = "done"
    /\ walk = "tree"
    /\ \E p \in DOMAIN fs : fs[p].kind = "symlink"
    /\ \E i \in 1..Len(result.children) :
           /\ result.children[i].sizeBytes > 0
           /\ result.children[i].sizeBytes = result.sizeBytes

\* The subdirectories of D that are no links, in the order of their names,
\* each with its name, path and size: fixed by the file system alone.
InNameOrder(f, D) ==
    LET S == IF f[D].ok THEN SubDirs(f, D) ELSE {}
        at(i) == CHOOSE p \in S :
                     Cardinality({q \in S : q[Len(q)] < p[Len(p)]}) = i - 1
    IN  [i \in 1..Cardinality(S) |->
            [name |-> <<at(i)[Len(at(i))]>>, path |-> at(i),
             size |-> calculateFolderSize(f, at(i)), accessDenied |-> FALSE]]

\* C25: in every interleaving of the task threads with the loops of
\* getSubfolders a thread writes the future of its own task and nothing else;
\* what is collected is, entry after entry, the list of the subdirectories
\* in directory order with their sizes, whatever the order the tasks end
\* in; so the list before the sort is that list, and the list returned is
\* a permutation of it.
C25_ScheduleIndependent ==
    /\ [](/\ Len(subfolders) <= Len(InNameOrder(fs, Root))
          /\ \A k \in 1..Len(subfolders) : subfolders[k] = InNameOrder(fs, Root)[k]
          /\ spc = "returned" =>
                 /\ subfolders = InNameOrder(fs, Root)
                 /\ IsPermutation(returned, InNameOrder(fs, Root)))
    /\ [][\A i \in 1..Len(tasks) :
              TaskRun(i) =>
                  /\ subfolders' = subfolders
                  /\ returned' = returned
                  /\ Len(tasks') = Len(tasks)
                  /\ \A j \in 1..Len(tasks) : j # i => tasks'[j] = tasks[j]]_vars

\* The thread of the first task, of a directory with a file in it, has
\* ended while the dispatch loop has entries still to look at.
C25_Witness ==
    /\ spc = "dispatch"
    /\ pending # <<>>
    /\ Len(tasks) = 1
    /\ tasks[1].done
    /\ tasks[1].value > 0

\* The check main makes of its starting path: it exists and is a directory.
IsCheckedDirectory(f, p) == status(f, p).kind # "none" /\ is_directory(f, p)

\* C26: a path becomes the current path of the loop only as the path of an
\* entry of the list displayed, as the path popped from the history, or as
\* a path that exists and is a directory when it is taken: the path chosen
\* at the drive prompt after a back on an empty history as much as the
\* starting path.
C26_ViewedPathsAreChecked ==
    [][pc' # "exit" /\ (pc = "start" \/ currentPath' # currentPath) =>
          \/ Enter /\ \E i \in 1..Len(folders) : currentPath' = folders[i].path
          \/ Back /\ currentPath' = history[Len(history)]
          \/ IsCheckedDirectory(fs, currentPath')]_vars

=============================================================================
